---- MODULE Spec2Model ----
(***************************************************************************)
(* hypofuzz: the per-target fuzzing loop of FuzzProcess (startup, run_one, *)
(* generate_prefix, _update) and the drivers that schedule targets         *)
(* (engine, fuzz_several), from src/src/hypofuzz/hy.py.                    *)
(*                                                                         *)
(* The test function under fuzzing is the environment.  It is taken to be  *)
(* deterministic in the bytes it consumes: the buffers on which a run of   *)
(* the test ends form a prefix-free set, and the status, the arcs and the  *)
(* interesting_origin of a run are a function of the buffer it consumed.   *)
(* That function is not fixed in advance: `oracle` records the part of it  *)
(* observed so far and every first observation is a free choice.           *)
(***************************************************************************)
EXTENDS Integers, Sequences, FiniteSets, TLC

(* ------------------------------ bounds -------------------------------- *)

\* cap on FuzzProcess.ninputs of one process incarnation
MaxTrials == 3
\* cap on the number of process restarts on the same database
MaxRestarts == 1
\* number of FuzzProcess objects handed to fuzz_several
NumTargets == 2
\* cap on the loop counter i of fuzz_several
MaxTicks == 21

(* --------------------------- program constants ------------------------ *)

\* hypothesis.internal.conjecture.engine.BUFFER_SIZE, the max_length of every
\* ConjectureData.  It is 8 * 1024 bytes there; buffers are scaled down to
\* two bytes here, which keeps the shortlex cases (shorter, and equally long
\* but smaller) and the cut and the padded runs.
BUFFER_SIZE == 2

\* hypothesis.internal.conjecture.data.Status (an IntEnum)
OVERRUN == 0
INVALID == 1
VALID == 2
INTERESTING == 3
\* generate_prefix: "if self.ninputs < 100 or ..."
RandomPhase == 100
\* generate_prefix: "self.random.randint(0, 9)"
MaxPadding == 9
\* _update: "if self.ninputs % 100 == 0 or ..."
ReportEvery == 100
\* fuzz_several: "if i % 20 == 0"
ExplorePeriod == 20

(* ------------------------------ domains ------------------------------- *)

Bytes == {0, 1}
\* the coverage a run of the test function may report
ArcSets == {{"a", "b"}, {"c"}, {"a", "c", "d"}}
Origins == {"o1", "o2"}
None == "None"
Targets == 1 .. NumTargets

SeqsUpTo(n) == UNION {[1 .. k -> Bytes] : k \in 0 .. n}
\* the buffers a ConjectureData(max_length=BUFFER_SIZE) can end on
Buffers == SeqsUpTo(BUFFER_SIZE)
ZeroBuffer == [k \in 1 .. BUFFER_SIZE |-> 0]

IsPrefix(s, t) == Len(s) <= Len(t) /\ SubSeq(t, 1, Len(s)) = s
Comparable(s, t) == IsPrefix(s, t) \/ IsPrefix(t, s)
SymDiff(A, B) == (A \ B) \cup (B \ A)

(* ------------------------------ sort_key ------------------------------ *)

RECURSIVE LexLess(_, _)
\* Python's bytes.__lt__
LexLess(s, t) ==
    IF s = <<>> THEN t # <<>>
    ELSE IF t = <<>> THEN FALSE
    ELSE IF Head(s) # Head(t) THEN Head(s) < Head(t)
    ELSE LexLess(Tail(s), Tail(t))

sort_key(buffer) == <<Len(buffer), buffer>>

\* Python's tuple comparison of two sort keys, k1 < k2 and k1 <= k2
KeyLess(k1, k2) == k1[1] < k2[1] \/ (k1[1] = k2[1] /\ LexLess(k1[2], k2[2]))
KeyLeq(k1, k2) == k1 = k2 \/ KeyLess(k1, k2)

\* sorted(S, key=sort_key, reverse=True)
RECURSIVE SortedDescending(_)
SortedDescending(S) ==
    IF S = {} THEN <<>>
    ELSE LET m == CHOOSE x \in S : \A y \in S : KeyLeq(sort_key(y), sort_key(x))
         IN <<m>> \o SortedDescending(S \ {m})

(* -------------------------- the Execution Bridge ---------------------- *)

\* what one run of the test can end with, by the except clauses of
\* fuzz_in_generator
Outcomes ==
    {[status |-> OVERRUN, arcs |-> {}, origin |-> None]}
    \cup {[status |-> s, arcs |-> A, origin |-> None] :
            s \in {INVALID, VALID}, A \in ArcSets}
    \cup {[status |-> INTERESTING, arcs |-> A, origin |-> o] :
            A \in ArcSets, o \in Origins}

\* data.as_result()
ConjectureResult(buffer, out) ==
    [buffer |-> buffer, status |-> out.status, arcs |-> out.arcs,
     origin |-> out.origin]

\* the test function has not been run on this buffer yet
Unknown == [status |-> -1, arcs |-> {}, origin |-> None]
Known(orc) == {b \in Buffers : orc[b] # Unknown}

\* the bytes of the prefix buf that ConjectureData(max_length=BUFFER_SIZE,
\* prefix=buf) can hand out: draws past max_length end the run
Readable(buf) ==
    SubSeq(buf, 1, IF Len(buf) < BUFFER_SIZE THEN Len(buf) ELSE BUFFER_SIZE)

\* One pass of the loop of fuzz_in_generator on the prefix buf: the set of
\* [result, oracle] it can end with.  A run that consumed a known buffer k
\* before repeats on every prefix that starts with k; otherwise the run ends
\* on a buffer c that is cut from the prefix or pads it with random bytes,
\* and that no known run contradicts.  StopTest (OVERRUN) needs the whole
\* max_length to have been consumed.
fuzz_in_generator(orc, buf) ==
    LET pre == Readable(buf)
        forced == {k \in Known(orc) : IsPrefix(k, pre)}
        free == {c \in Buffers :
                    /\ Comparable(c, pre)
                    /\ \A k \in Known(orc) : Comparable(k, c) => k = c}
    IN IF forced # {}
       THEN {[result |-> ConjectureResult(k, orc[k]), oracle |-> orc] : k \in forced}
       ELSE UNION {
              IF orc[c] # Unknown
              THEN {[result |-> ConjectureResult(c, orc[c]), oracle |-> orc]}
              ELSE {[result |-> ConjectureResult(c, o),
                     oracle |-> [orc EXCEPT ![c] = o]] :
                       o \in {x \in Outcomes :
                                x.status = OVERRUN => Len(c) = BUFFER_SIZE}}
              : c \in free}

(* ------------------------------- state -------------------------------- *)

VARIABLES
    fp,         \* fp[t]: the fields of FuzzProcess t
    database,   \* database[t]: what the ExampleDatabase holds under t's two keys
    oracle,     \* oracle[t]: the observed part of t's test function
    call,       \* the last call made on a FuzzProcess, and what it returned
    ghost,      \* ghost[t]: history of t kept for the properties
    targets,    \* fuzz_several: the SortedKeyList, as a sequence of [key, t]
    i,          \* fuzz_several: the loop counter
    pc          \* the driver: "engine", or fuzz_several's position

vars == <<fp, database, oracle, call, ghost, targets, i, pc>>

(* ------------------------------ FuzzProcess --------------------------- *)

NoArcs == [a \in {} |-> 0]
NoExamples == [o \in {} |-> <<>>]

\* FuzzProcess.__init__: the fields of a fresh object
__init__ ==
    [ninputs |-> 0, last_new_cov_at |-> 0,
     pool |-> <<>>, replay_buffer |-> <<>>,
     seen_arcs |-> NoArcs, minimal_example_arcs |-> {},
     interesting_examples |-> NoExamples,
     reports |-> 0]

\* ExampleDatabase.save / fetch on the keys _hy_database_key and
\* _fuzz_database_key = b"fuzz_" + _hy_database_key
\* (configured is FALSE when self._database is None)
EmptyDatabase == [configured |-> TRUE, hy |-> {}, fuzz |-> {}]
save(d, key, buffer) ==
    IF key = "hy" THEN [d EXCEPT !.hy = @ \cup {buffer}]
    ELSE [d EXCEPT !.fuzz = @ \cup {buffer}]
fetch(d, key) == IF key = "hy" THEN d.hy ELSE d.fuzz

\* SortedKeyList(key=sort_key).add: insert to the right of the equal keys
PoolAdd(pool, r) ==
    LET n == Cardinality({j \in 1 .. Len(pool) :
                 KeyLeq(sort_key(pool[j].buffer), sort_key(r.buffer))})
    IN SubSeq(pool, 1, n) \o <<r>> \o SubSeq(pool, n + 1, Len(pool))

\* (mutation: the counter is replaced by the count of the new arcs)
CounterUpdate_Replace(seen, arcs) == [a \in arcs |-> 1]
\* Counter.update(arcs)
CounterUpdate(seen, arcs) ==
    [a \in (DOMAIN seen) \cup arcs |->
        (IF a \in DOMAIN seen THEN seen[a] ELSE 0) + (IF a \in arcs THEN 1 ELSE 0)]

\* dict.setdefault(origin, buffer)
SetDefault(examples, origin, buffer) ==
    IF origin \in DOMAIN examples THEN examples
    ELSE [o \in (DOMAIN examples) \cup {origin} |->
            IF o = origin THEN buffer ELSE examples[o]]

\* (mutation: difference in place of symmetric_difference)
UpdateArcs_Difference(p, r) == r.arcs \ p.minimal_example_arcs
\* _update, "arcs": minimal_example_arcs.symmetric_difference(result arcs)
UpdateArcs(p, r) == SymDiff(p.minimal_example_arcs, r.arcs)

\* _update: "if arcs.difference(self.seen_arcs)"
HasNewCoverage(p, r) == UpdateArcs(p, r) \ DOMAIN p.seen_arcs # {}

\* (mutation: < in place of <=)
SavesFailure_Strict(d, r, x) ==
    d.configured /\ KeyLess(sort_key(r.buffer), sort_key(x))
\* _update: "if self._database and sort_key(result) <= sort_key(x)"
SavesFailure(d, r, x) ==
    d.configured /\ KeyLeq(sort_key(r.buffer), sort_key(x))

\* _update: "if self.ninputs % 100 == 0 or not arcs.issubset(self.seen_arcs)"
ReportsChange(p, r) ==
    p.ninputs % ReportEvery = 0 \/ ~(UpdateArcs(p, r) \subseteq DOMAIN p.seen_arcs)

\* (mutation: the result is added to the pool and never saved)
UpdateCoverage_NoSave(p, d, r) ==
    IF ~HasNewCoverage(p, r) THEN [fp |-> p, db |-> d, raised |-> FALSE]
    ELSE [fp |-> [p EXCEPT !.last_new_cov_at = p.ninputs,
                           !.pool = PoolAdd(p.pool, r)],
          db |-> d,
          raised |-> FALSE]
\* (mutation: last_new_cov_at takes the count of the trial before)
UpdateCoverage_TrialBefore(p, d, r) ==
    IF ~HasNewCoverage(p, r) THEN [fp |-> p, db |-> d, raised |-> FALSE]
    ELSE [fp |-> [p EXCEPT !.last_new_cov_at = p.ninputs - 1,
                           !.pool = PoolAdd(p.pool, r)],
          db |-> save(d, "fuzz", r.buffer),
          raised |-> FALSE]
\* _update, the coverage part: save under the fuzz key, note the trial, add
\* to the pool.  Without a database the save raises AttributeError before
\* anything is assigned.
UpdateCoverage(p, d, r) ==
    IF ~HasNewCoverage(p, r) THEN [fp |-> p, db |-> d, raised |-> FALSE]
    ELSE IF ~d.configured THEN [fp |-> p, db |-> d, raised |-> TRUE]
    ELSE [fp |-> [p EXCEPT !.last_new_cov_at = p.ninputs,
                           !.pool = PoolAdd(p.pool, r)],
          db |-> save(d, "fuzz", r.buffer),
          raised |-> FALSE]

\* (mutation: the result is compared with the example known before it only)
UpdateInteresting_KnownBefore(p, d, r) ==
    IF r.status # INTERESTING THEN [fp |-> p, db |-> d]
    ELSE LET known == p.interesting_examples
         IN [fp |-> [p EXCEPT !.interesting_examples =
                                 SetDefault(known, r.origin, r.buffer)],
             db |-> IF r.origin \in DOMAIN known
                         /\ SavesFailure(d, r, known[r.origin])
                    THEN save(d, "hy", r.buffer) ELSE d]
\* _update, the failure part: remember the origin, save under the primary key
UpdateInteresting(p, d, r) ==
    IF r.status # INTERESTING THEN [fp |-> p, db |-> d]
    ELSE LET examples == SetDefault(p.interesting_examples, r.origin, r.buffer)
             x == examples[r.origin]
         IN [fp |-> [p EXCEPT !.interesting_examples = examples],
             db |-> IF SavesFailure(d, r, x) THEN save(d, "hy", r.buffer) ELSE d]

\* FuzzProcess._update(result): the fields, the database and whether it raised
_update(p, d, r) ==
    IF r.status = OVERRUN THEN [fp |-> p, db |-> d, raised |-> FALSE]
    ELSE LET c == UpdateCoverage(p, d, r)
         IN IF c.raised THEN c
            ELSE LET f == UpdateInteresting(c.fp, c.db, r)
                     q == f.fp
                 IN [fp |-> [q EXCEPT
                              !.reports = @ + (IF ReportsChange(q, r) THEN 1 ELSE 0),
                              !.seen_arcs = CounterUpdate(q.seen_arcs, UpdateArcs(q, r))],
                     db |-> f.db,
                     raised |-> FALSE]

\* generate_prefix, the splice: prefix.buffer[:r1] + _gen_bytes(r2) +
\* postfix.buffer[:r3] for two entries of the pool
PoolPrefixes(pool) ==
    UNION {{SubSeq(pool[j].buffer, 1, n) : n \in 0 .. Len(pool[j].buffer)} :
             j \in 1 .. Len(pool)}
Splices(pool) ==
    {a \o m \o b :
        a \in PoolPrefixes(pool), m \in SeqsUpTo(MaxPadding), b \in PoolPrefixes(pool)}

\* (mutation: the queue is popped at its front)
ReplayPop_Front(q) == [prefix |-> Head(q), rest |-> Tail(q)]
\* generate_prefix: "return self._replay_buffer.pop()", the last element
ReplayPop(q) == [prefix |-> q[Len(q)], rest |-> SubSeq(q, 1, Len(q) - 1)]

\* (mutation: no phase of random inputs only)
OnlyRandom_Never(p) == FALSE
\* generate_prefix: "self.ninputs < 100", which makes it return b""
OnlyRandom(p) == p.ninputs < RandomPhase

\* FuzzProcess.generate_prefix: the [prefix, fp, replayed, spliced] it can
\* return.  self.random is read by the last two branches only: b"" is
\* returned below RandomPhase trials or on a draw of random() <= 0.01, and a
\* splice otherwise.
generate_prefix(p) ==
    IF p.replay_buffer # <<>>
    THEN {[prefix |-> ReplayPop(p.replay_buffer).prefix,
           fp |-> [p EXCEPT !.replay_buffer = ReplayPop(@).rest],
           replayed |-> TRUE, spliced |-> FALSE]}
    ELSE {[prefix |-> <<>>, fp |-> p, replayed |-> FALSE, spliced |-> FALSE]}
         \cup IF OnlyRandom(p) THEN {}
              ELSE {[prefix |-> b, fp |-> p, replayed |-> FALSE, spliced |-> TRUE] :
                      b \in Splices(p.pool)}

\* the result of a call that raised before it ran the test
NoResult == [buffer |-> <<>>, status |-> -1, arcs |-> {}, origin |-> None]

\* (mutation: the pool is taken to be filled once a trial was counted)
Started_Counted(p) == p.ninputs > 0
\* "assert self.pool" of run_one, "assert not self.pool" of startup
Started(p) == p.pool # <<>>

\* a call that raised on its assert: nothing ran and nothing was assigned
Refused(p, d, orc) ==
    [fp |-> p, db |-> d, oracle |-> orc, result |-> NoResult, prefix |-> <<>>,
     raised |-> TRUE, replayed |-> FALSE, spliced |-> FALSE]

\* (mutation: only results better than INVALID are handed to _update)
Processed_ValidOnly(r) == r.status > INVALID
\* run_one: "if result.status > Status.OVERRUN"
Processed(r) == r.status > OVERRUN

\* (mutation: a trial whose result is not processed is not counted)
Finish_Uncounted(q, d, r) ==
    IF Processed(r) THEN _update(q, d, r)
    ELSE [fp |-> [q EXCEPT !.ninputs = @ - 1], db |-> d, raised |-> FALSE]
\* run_one, after the test ran: "if result.status > Status.OVERRUN:
\* self._update(result)"
Finish(q, d, r) ==
    IF Processed(r) THEN _update(q, d, r)
    ELSE [fp |-> q, db |-> d, raised |-> FALSE]

\* FuzzProcess.run_one on the fields p, the database d and the test function
\* orc: the set of ways it can end.  (The result that next() returns is
\* dropped by run_one and changes no field; it is not modelled.)
run_one(p, d, orc) ==
    IF ~Started(p)
    THEN {Refused(p, d, orc)}
    ELSE LET p1 == [p EXCEPT !.ninputs = @ + 1, !.reports = 0]
         IN UNION {
              {LET u == Finish(g.fp, d, e.result)
               IN [fp |-> u.fp, db |-> u.db, oracle |-> e.oracle,
                   result |-> e.result, prefix |-> g.prefix,
                   raised |-> u.raised,
                   replayed |-> g.replayed, spliced |-> g.spliced] :
                 e \in fuzz_in_generator(orc, g.prefix)} :
              g \in generate_prefix(p1)}

\* (mutations: one of the two keys is not fetched)
LoadReplayBuffer_PrimaryOnly(d) ==
    IF d.configured THEN SortedDescending(fetch(d, "hy")) ELSE <<>>
LoadReplayBuffer_FuzzOnly(d) ==
    IF d.configured THEN SortedDescending(fetch(d, "fuzz")) ELSE <<>>
\* startup: the replay queue read from the database
LoadReplayBuffer(d) ==
    IF d.configured
    THEN SortedDescending(fetch(d, "hy") \cup fetch(d, "fuzz"))
    ELSE <<>>

\* FuzzProcess.startup.  An OVERRUN first result has no extra_information:
\* reading its arcs raises after ninputs was counted.
startup(p, d, orc) ==
    IF Started(p)
    THEN {Refused(p, d, orc)}
    ELSE LET p1 == [p EXCEPT !.ninputs = @ + 1, !.reports = 1]
         IN {IF e.result.status = OVERRUN
             THEN [fp |-> p1, db |-> d, oracle |-> e.oracle, result |-> e.result,
                   prefix |-> ZeroBuffer,
                   raised |-> TRUE, replayed |-> FALSE, spliced |-> FALSE]
             ELSE LET p2 == [p1 EXCEPT !.minimal_example_arcs = e.result.arcs,
                                       !.pool = PoolAdd(@, e.result)]
                      u == _update(p2, d, e.result)
                  IN [fp |-> IF u.raised THEN u.fp
                             ELSE [u.fp EXCEPT !.replay_buffer = LoadReplayBuffer(u.db)],
                      db |-> u.db, oracle |-> e.oracle, result |-> e.result,
                      prefix |-> ZeroBuffer,
                      raised |-> u.raised, replayed |-> FALSE, spliced |-> FALSE] :
               e \in fuzz_in_generator(orc, ZeroBuffer)}

\* estimated_value_of_next_run, as the fraction <<numerator, denominator>>
estimated_value_of_next_run(p) == <<1, 1 + p.ninputs - p.last_new_cov_at>>

\* has_found_failure
has_found_failure(p) == DOMAIN p.interesting_examples # {}

(* ------------------------- calls and their history -------------------- *)

NoCall == [op |-> "none", t |-> 0, result |-> NoResult, prefix |-> <<>>,
           raised |-> FALSE, replayed |-> FALSE, spliced |-> FALSE]

\* ghost[t]: restarts so far; the seen arcs and the recorded origins of the
\* previous incarnation when it stopped; firstresult of startup; the results
\* _update has processed and whether generate_prefix has gone past the
\* replay queue, in this incarnation; whether a run_one has returned with
\* has_found_failure true; the calls of startup that returned; the trials in
\* a row, up to now, that did not call _report_change
NoHistory ==
    [restarts |-> 0, prior_seen |-> {}, prior_origins |-> {},
     firstresult |-> NoResult, processed |-> {}, generated |-> FALSE,
     failed_run |-> FALSE, startups |-> 0, quiet |-> 0]

Record(h, op, o) ==
    [h EXCEPT
       !.firstresult = IF op = "startup" /\ ~o.raised THEN o.result ELSE @,
       !.processed = IF ~o.raised /\ o.result.status > OVERRUN
                     THEN @ \cup {o.result} ELSE @,
       !.generated = @ \/ (op = "run_one" /\ o.result # NoResult /\ ~o.replayed),
       !.failed_run = @ \/ (op = "run_one" /\ has_found_failure(o.fp)),
       !.startups = IF op = "startup" /\ ~o.raised THEN @ + 1 ELSE @,
       !.quiet = IF o.result = NoResult THEN @
                 ELSE IF o.fp.reports > 0 THEN 0 ELSE @ + 1]

\* the effect of the call op on target t that ended as o; of the prefix the
\* call sent to the test, `call` keeps the bytes the test could read
Apply(t, op, o) ==
    /\ fp' = [fp EXCEPT ![t] = o.fp]
    /\ database' = [database EXCEPT ![t] = o.db]
    /\ oracle' = [oracle EXCEPT ![t] = o.oracle]
    /\ call' = [op |-> op, t |-> t, result |-> o.result,
                prefix |-> Readable(o.prefix),
                raised |-> o.raised, replayed |-> o.replayed,
                spliced |-> o.spliced]
    /\ ghost' = [ghost EXCEPT ![t] = Record(@, op, o)]

(* ---------------------- one FuzzProcess and its driver ---------------- *)
\* The driver calls startup() first and run_one() from then on, as engine
\* and fuzz_several do, in a process that may end at any point and start
\* again on the same database.

\* the FuzzProcess the driver holds
TheTarget == CHOOSE t \in Targets : \A u \in Targets : t <= u

Init ==
    /\ fp = [t \in Targets |-> __init__]
    /\ database = [t \in Targets |-> EmptyDatabase]
    /\ oracle = [t \in Targets |-> [b \in Buffers |-> Unknown]]
    /\ call = NoCall
    /\ ghost = [t \in Targets |-> NoHistory]
    /\ targets = <<>>
    /\ i = 0
    /\ pc = [at |-> "driver", k |-> 0]

Startup ==
    /\ fp[TheTarget].pool = <<>>
    /\ fp[TheTarget].ninputs < MaxTrials
    /\ \E o \in startup(fp[TheTarget], database[TheTarget], oracle[TheTarget]) :
          Apply(TheTarget, "startup", o)
    /\ UNCHANGED <<targets, i, pc>>

RunOne ==
    /\ fp[TheTarget].pool # <<>>
    /\ fp[TheTarget].ninputs < MaxTrials
    /\ \E o \in run_one(fp[TheTarget], database[TheTarget], oracle[TheTarget]) :
          Apply(TheTarget, "run_one", o)
    /\ UNCHANGED <<targets, i, pc>>

\* the process ends after some call and a new one constructs the
\* FuzzProcess again, on the same database and the same test function
Restart ==
    /\ fp[TheTarget].ninputs > 0
    /\ ghost[TheTarget].restarts < MaxRestarts
    /\ fp' = [fp EXCEPT ![TheTarget] = __init__]
    /\ call' = [NoCall EXCEPT !.op = "restart", !.t = TheTarget]
    /\ ghost' = [ghost EXCEPT ![TheTarget] =
                   [NoHistory EXCEPT
                      !.restarts = ghost[TheTarget].restarts + 1,
                      !.prior_seen = DOMAIN fp[TheTarget].seen_arcs,
                      !.prior_origins = DOMAIN fp[TheTarget].interesting_examples]]
    /\ UNCHANGED <<database, oracle, targets, i, pc>>

Next == Startup \/ RunOne \/ Restart

Spec == Init /\ [][Next]_vars

(* ------------------- a driver that keeps to no order ------------------ *)
\* The embedding code calls startup() and run_one() in any order, and the
\* FuzzProcess was constructed with or without a database:
\* "self._database = hypothesis_database or settings.default.database" is
\* None when both are.

NoDatabase == [EmptyDatabase EXCEPT !.configured = FALSE]

FreeInit ==
    /\ fp = [t \in Targets |-> __init__]
    /\ \E d \in {EmptyDatabase, NoDatabase} :
          database = [t \in Targets |-> IF t = TheTarget THEN d ELSE EmptyDatabase]
    /\ oracle = [t \in Targets |-> [b \in Buffers |-> Unknown]]
    /\ call = NoCall
    /\ ghost = [t \in Targets |-> NoHistory]
    /\ targets = <<>>
    /\ i = 0
    /\ pc = [at |-> "driver", k |-> 0]

CallStartup ==
    /\ fp[TheTarget].ninputs < MaxTrials
    /\ \E o \in startup(fp[TheTarget], database[TheTarget], oracle[TheTarget]) :
          Apply(TheTarget, "startup", o)
    /\ UNCHANGED <<targets, i, pc>>

CallRunOne ==
    /\ fp[TheTarget].ninputs < MaxTrials
    /\ \E o \in run_one(fp[TheTarget], database[TheTarget], oracle[TheTarget]) :
          Apply(TheTarget, "run_one", o)
    /\ UNCHANGED <<targets, i, pc>>

FreeNext == CallStartup \/ CallRunOne

FreeSpec == FreeInit /\ [][FreeNext]_vars

(* ------------------------------ fuzz_several -------------------------- *)

\* comparison of fractions with positive denominators
RatLess(x, y) == x[1] * y[2] < y[1] * x[2]

\* the key function of the SortedKeyList: lambda t: -t.estimated_value_of_next_run
key(p) ==
    LET v == estimated_value_of_next_run(p) IN <<0 - v[1], v[2]>>

\* SortedKeyList.add(t): the key is computed now and kept with the entry,
\* which goes to the right of the entries whose kept key is not larger
ScheduleAdd(list, t, p) ==
    LET k == key(p)
        n == Cardinality({j \in 1 .. Len(list) : ~RatLess(k, list[j].key)})
    IN SubSeq(list, 1, n) \o <<[key |-> k, t |-> t]>> \o SubSeq(list, n + 1, Len(list))

\* SortedKeyList.pop(index), index from 0
SchedulePop(list, index) ==
    SubSeq(list, 1, index) \o SubSeq(list, index + 2, Len(list))

\* SortedKeyList(targets_, key): all keys are computed on the fresh objects
NewSchedule == [t \in Targets |-> [key |-> key(__init__), t |-> t]]

\* test functions that read one byte: the zero byte passes with the coverage
\* {a, b}, the other byte ends as `out`
OneByteTest(out) ==
    [b \in Buffers |->
        IF b = <<0>> THEN [status |-> VALID, arcs |-> {"a", "b"}, origin |-> None]
        ELSE IF b = <<1>> THEN out
        ELSE Unknown]
Quiet == [status |-> VALID, arcs |-> {"a", "b"}, origin |-> None]
OtherByte ==
    {Quiet,
     [status |-> VALID, arcs |-> {"c"}, origin |-> None],
     [status |-> INTERESTING, arcs |-> {"a", "b"}, origin |-> "o1"]}

SchedInitWith(tests) ==
    /\ fp = [t \in Targets |-> __init__]
    /\ database = [t \in Targets |-> EmptyDatabase]
    /\ oracle \in [Targets -> tests]
    /\ call = NoCall
    /\ ghost = [t \in Targets |-> NoHistory]
    /\ targets = NewSchedule
    /\ i = 0
    /\ pc = [at |-> "startup", k |-> 1]

SchedInit == SchedInitWith({OneByteTest(out) : out \in OtherByte})

\* "for t in targets: t.startup()", one target per step
SchedStartup ==
    /\ pc.at = "startup"
    /\ LET t == targets[pc.k].t
       IN \E o \in startup(fp[t], database[t], oracle[t]) :
            /\ Apply(t, "startup", o)
            /\ pc' = IF o.raised THEN [at |-> "raised", k |-> 0]
                     ELSE IF pc.k < Len(targets) THEN [pc EXCEPT !.k = @ + 1]
                     ELSE [at |-> "loop", k |-> 0]
    /\ UNCHANGED <<targets, i>>

\* "if i % 20 == 0": pop a random entry, run it, add it again
ExploreTick ==
    /\ pc.at = "loop" /\ i < MaxTicks
    /\ i % ExplorePeriod = 0
    /\ \E index \in 0 .. Len(targets) - 1 :
         LET t == targets[index + 1].t
             rest == SchedulePop(targets, index)
         IN \E o \in run_one(fp[t], database[t], oracle[t]) :
              /\ Apply(t, "run_one", o)
              /\ targets' = IF o.raised THEN rest ELSE ScheduleAdd(rest, t, o.fp)
              /\ pc' = IF o.raised THEN [at |-> "raised", k |-> 0] ELSE pc
    /\ i' = i + 1

\* (mutation: the comparison of the two keys is turned round)
AfterGreedyRun_TurnedRound(list, t, p, next) ==
    IF Len(list) > 1 /\ RatLess(key(p), key(next))
    THEN ScheduleAdd(SchedulePop(list, 0), t, p)
    ELSE IF has_found_failure(p) THEN SchedulePop(list, 0)
    ELSE list
\* (mutation: the entry that is not re-sorted is dropped, failure or not)
AfterGreedyRun_DropsAny(list, t, p, next) ==
    IF Len(list) > 1 /\ RatLess(key(next), key(p))
    THEN ScheduleAdd(SchedulePop(list, 0), t, p)
    ELSE SchedulePop(list, 0)
\* the schedule after targets[0] was run, by the if / elif of the else branch
AfterGreedyRun(list, t, p, next) ==
    IF Len(list) > 1 /\ RatLess(key(next), key(p))
    THEN ScheduleAdd(SchedulePop(list, 0), t, p)
    ELSE IF has_found_failure(p) THEN SchedulePop(list, 0)
    ELSE list

\* "else": run targets[0], re-sort it or drop it, stop when nothing is left
GreedyTick ==
    /\ pc.at = "loop" /\ i < MaxTicks
    /\ i % ExplorePeriod # 0
    /\ LET t == targets[1].t
       IN \E o \in run_one(fp[t], database[t], oracle[t]) :
            /\ Apply(t, "run_one", o)
            /\ targets' = IF o.raised THEN targets
                          ELSE AfterGreedyRun(targets, t, o.fp,
                                 IF Len(targets) > 1 THEN fp[targets[2].t] ELSE o.fp)
            /\ pc' = IF o.raised THEN [at |-> "raised", k |-> 0]
                     ELSE IF targets' = <<>> THEN [at |-> "done", k |-> 0]
                     ELSE pc
    /\ i' = i + 1

SchedNext == SchedStartup \/ ExploreTick \/ GreedyTick

SchedSpec == SchedInit /\ [][SchedNext]_vars

\* targets that never find new coverage and never fail; the loop of
\* fuzz_several goes on as long as it can
QuietInit == SchedInitWith({OneByteTest(Quiet)})
QuietSpec == QuietInit /\ [][SchedNext]_vars /\ WF_vars(SchedNext)

(* ------------------------ a long run of one target -------------------- *)
\* One FuzzProcess run past its hundredth trial, where generate_prefix
\* starts to splice and "self.ninputs % 100 == 0" comes true, on a database
\* that earlier runs have written to.

\* cap on FuzzProcess.ninputs in the long run
LongTrials == 101

\* a test function that reads one byte and, after a 1, a second one: it
\* passes with the coverage {a, b} on <<0>> and on <<1, 0>>, and after
\* <<1, 1>> it asks for a third byte, which max_length does not allow
TwoByteTest ==
    [b \in Buffers |->
        IF b \in {<<0>>, <<1, 0>>} THEN Quiet
        ELSE IF b = <<1, 1>> THEN [status |-> OVERRUN, arcs |-> {}, origin |-> None]
        ELSE Unknown]

\* what earlier runs, of the fuzzer under the fuzz key and of the test suite
\* under the primary key, have left in the database
SavedBefore == [configured |-> TRUE, hy |-> {<<1, 1>>}, fuzz |-> {<<1, 0>>}]

LongInit ==
    /\ fp = [t \in Targets |-> __init__]
    /\ database = [t \in Targets |-> SavedBefore]
    /\ oracle = [t \in Targets |-> TwoByteTest]
    /\ call = NoCall
    /\ ghost = [t \in Targets |-> NoHistory]
    /\ targets = <<>>
    /\ i = 0
    /\ pc = [at |-> "driver", k |-> 0]

LongStartup ==
    /\ fp[TheTarget].pool = <<>>
    /\ fp[TheTarget].ninputs < LongTrials
    /\ \E o \in startup(fp[TheTarget], database[TheTarget], oracle[TheTarget]) :
          Apply(TheTarget, "startup", o)
    /\ UNCHANGED <<targets, i, pc>>

LongRunOne ==
    /\ fp[TheTarget].pool # <<>>
    /\ fp[TheTarget].ninputs < LongTrials
    /\ \E o \in run_one(fp[TheTarget], database[TheTarget], oracle[TheTarget]) :
          Apply(TheTarget, "run_one", o)
    /\ UNCHANGED <<targets, i, pc>>

LongNext == LongStartup \/ LongRunOne

LongSpec == LongInit /\ [][LongNext]_vars

(* ------------------- properties of one FuzzProcess -------------------- *)

\* what the properties read of the target driven by Spec
Fields == fp[TheTarget]
Stored == database[TheTarget]
History == ghost[TheTarget]
Range(q) == {q[j] : j \in DOMAIN q}

\* the step is a call of run_one, or of startup, that returned
RunOneStep == call'.op = "run_one" /\ ~call'.raised
StartupStep == call'.op = "startup" /\ ~call'.raised
\* the call before this state, and the call of this step, handed _update an
\* INTERESTING result each, of one interesting_origin, the second the smaller
LargerThenSmaller ==
    /\ call.op \in {"startup", "run_one"} /\ ~call.raised
    /\ RunOneStep
    /\ call.result.status = INTERESTING /\ call'.result.status = INTERESTING
    /\ call.result.origin = call'.result.origin
    /\ KeyLess(sort_key(call'.result.buffer), sort_key(call.result.buffer))

\* C1, as claimed: of two INTERESTING results of one origin processed one
\* after the other, the larger first, only the smaller is ever saved under the
\* primary key.
C1_OnlySmallerSaved ==
    [][LargerThenSmaller =>
         /\ call'.result.buffer \in fetch(Stored', "hy")
         /\ call.result.buffer \notin fetch(Stored', "hy")]_vars

\* C1, amended: when the larger result is the failure recorded for its origin
\* (the first seen), both buffers are saved under the primary key: the larger
\* when it arrives, being the best known then, and the smaller after it.
C1_BothSaved ==
    [][(/\ LargerThenSmaller
        /\ call.result.origin \in DOMAIN Fields.interesting_examples
        /\ Fields.interesting_examples[call.result.origin] = call.result.buffer)
       => /\ call.result.buffer \in fetch(Stored, "hy")
          /\ {call.result.buffer, call'.result.buffer} \subseteq fetch(Stored', "hy")]_vars

C1_Witness ==
    /\ History.restarts = 0
    /\ call.op = "run_one" /\ call.result.status = INTERESTING
    /\ call.result.origin \in DOMAIN Fields.interesting_examples
    /\ LET x == Fields.interesting_examples[call.result.origin]
       IN /\ Len(x) = 2 /\ Len(call.result.buffer) = 1
          /\ \E r \in History.processed : r.buffer = x /\ r.origin = call.result.origin
          /\ {x, call.result.buffer} \subseteq fetch(Stored, "hy")

\* C2: the interesting-examples map has one entry per origin processed so far
\* and holds, for each, the smallest buffer by sort_key among the INTERESTING
\* results of that origin processed so far.
C2_BestIsSmallest ==
    LET failures == {r \in History.processed : r.status = INTERESTING}
    IN /\ DOMAIN Fields.interesting_examples = {r.origin : r \in failures}
       /\ \A r \in failures :
            KeyLeq(sort_key(Fields.interesting_examples[r.origin]), sort_key(r.buffer))

\* C3: _update admits a result better than OVERRUN to the pool iff
\* (baseline arcs symmetric-difference result arcs) minus the seen arcs is
\* not empty, and the seen arcs become the old ones united with that
\* symmetric difference; startup's own _update admits nothing.
C3_Admission ==
    [][/\ (RunOneStep /\ call'.result.status > OVERRUN) =>
            LET r == call'.result
                base == Fields.minimal_example_arcs
                delta == (base \ r.arcs) \cup (r.arcs \ base)
                novel == delta \ DOMAIN Fields.seen_arcs
            IN /\ novel # {} =>
                    /\ Len(Fields'.pool) = Len(Fields.pool) + 1
                    /\ Range(Fields'.pool) = Range(Fields.pool) \cup {r}
               /\ novel = {} => Fields'.pool = Fields.pool
               /\ DOMAIN Fields'.seen_arcs = (DOMAIN Fields.seen_arcs) \cup delta
       /\ StartupStep =>
            /\ Fields'.pool = <<call'.result>>
            /\ DOMAIN Fields'.seen_arcs = DOMAIN Fields.seen_arcs]_vars

\* baseline {a,b}, seen {a,b,c}, result {a,c,d}: admitted, seen {a,b,c,d}
C3_Witness ==
    /\ Fields.minimal_example_arcs = {"a", "b"}
    /\ call.op = "run_one" /\ call.result.arcs = {"a", "c", "d"}
    /\ call.result \in Range(Fields.pool)
    /\ DOMAIN Fields.seen_arcs = {"a", "b", "c", "d"}
    /\ Fields.seen_arcs["d"] = 1 /\ Fields.seen_arcs["c"] = 2
    /\ Fields.seen_arcs["b"] = 2 /\ Fields.seen_arcs["a"] = 1

\* every pool entry but the startup baseline has its buffer under the fuzz key
C4_PoolIsSaved ==
    \A r \in Range(Fields.pool) :
        r # History.firstresult => r.buffer \in fetch(Stored, "fuzz")
\* the fuzz key is written in the run_one steps that admit a result, and in
\* no other step
C4_SaveIffAdmit ==
    /\ RunOneStep =>
         IF Len(Fields'.pool) = Len(Fields.pool) + 1
         THEN /\ fetch(Stored', "fuzz") = fetch(Stored, "fuzz") \cup {call'.result.buffer}
              /\ call'.result \in Range(Fields'.pool)
         ELSE /\ Fields'.pool = Fields.pool
              /\ fetch(Stored', "fuzz") = fetch(Stored, "fuzz")
    /\ ~RunOneStep => fetch(Stored', "fuzz") = fetch(Stored, "fuzz")
\* C4: every pool entry but the startup baseline has its buffer under the
\* fuzz key, and the fuzz key is written in exactly the steps that admit a
\* result to the pool, with that result's buffer.
C4_Checkpoint == []C4_PoolIsSaved /\ [][C4_SaveIffAdmit]_vars

C4_Witness ==
    /\ Len(Fields.pool) = 3
    /\ Cardinality(fetch(Stored, "fuzz")) = 2
    /\ History.firstresult \in Range(Fields.pool)

\* the trial of the last new coverage is a past trial; the estimate is in (0, 1]
C5_Range ==
    /\ 0 <= Fields.last_new_cov_at /\ Fields.last_new_cov_at <= Fields.ninputs
    /\ LET v == estimated_value_of_next_run(Fields)
       IN v[1] > 0 /\ v[2] >= 1 /\ v[1] <= v[2]
\* what one run_one does to ninputs - last_new_cov_at and to the estimate
C5_Step ==
    RunOneStep =>
       LET v == estimated_value_of_next_run(Fields)
           w == estimated_value_of_next_run(Fields')
       IN IF Len(Fields'.pool) = Len(Fields.pool)
          THEN /\ Fields'.ninputs - Fields'.last_new_cov_at
                    = Fields.ninputs - Fields.last_new_cov_at + 1
               /\ w[1] * v[2] < v[1] * w[2]
          ELSE /\ Fields'.ninputs - Fields'.last_new_cov_at = 0
               /\ w[1] = w[2]
\* C5: 0 <= last_new_cov_at <= ninputs, so the estimate 1/(1 + ninputs -
\* last_new_cov_at) is in (0, 1]; a run_one that admits no result makes
\* ninputs - last_new_cov_at one larger and the estimate strictly smaller, and
\* one that admits a result leaves the difference 0 and the estimate 1.
C5_ValueEstimate == []C5_Range /\ [][C5_Step]_vars

C5_Witness ==
    /\ Fields.ninputs = 3 /\ Fields.last_new_cov_at = 2
    /\ Len(Fields.pool) = 2 /\ call.op = "run_one"

\* the fresh FuzzProcess has run startup() and emptied its replay queue
Replayed == Fields.pool # <<>> /\ Fields.replay_buffer = <<>>

\* C6: a FuzzProcess that started on an empty database stops in any state; a
\* fresh one on the same database has, once startup() ran and run_one()
\* emptied the replay queue, the same set of seen arcs.
C6_ReplayIdempotent ==
    (History.restarts = 1 /\ Replayed /\ ~History.generated)
        => DOMAIN Fields.seen_arcs = History.prior_seen

C6_Witness ==
    /\ History.restarts = 1 /\ Replayed /\ ~History.generated
    /\ call.op = "run_one" /\ call.replayed
    /\ Cardinality(History.prior_seen) = 4
    /\ Fields.ninputs = 3

\* C7: every origin the previous FuzzProcess had recorded is in the
\* interesting-examples map of the fresh one once startup() ran and the
\* replay queue is empty, whether or not any generated trial was run.
C7_FailureSurvives ==
    (History.restarts >= 1 /\ Replayed)
        => History.prior_origins \subseteq DOMAIN Fields.interesting_examples

C7_Witness ==
    /\ History.restarts = 1 /\ Replayed /\ ~History.generated
    /\ call.op = "run_one" /\ call.replayed
    /\ call.result.status = INTERESTING
    /\ call.result.origin \in History.prior_origins
    /\ History.firstresult.status # INTERESTING

(* ---------------------- properties of fuzz_several -------------------- *)

Scheduled == {targets[j].t : j \in 1 .. Len(targets)}
Value(t) == estimated_value_of_next_run(fp[t])

\* C8: a target that has an interesting example after its run_one, on an
\* exploration tick or a greedy tick, is out of the schedule after the tick,
\* and run_one is not called on a target that has returned so before.
C8_FailedTargetRemoved ==
    [][(pc.at = "loop" /\ RunOneStep) =>
          /\ has_found_failure(fp'[call'.t]) => call'.t \notin Scheduled'
          /\ ~ghost[call'.t].failed_run]_vars

\* C9: at the start of every tick the schedule is in descending order of the
\* current value estimates, so targets[0] has the largest.
C9_SortedByValue ==
    pc.at = "loop" =>
       \A j, k \in 1 .. Len(targets) :
          j < k => ~RatLess(Value(targets[j].t), Value(targets[k].t))

\* ticks within which every target is run again
Horizon == 2 * NumTargets
\* C10: with targets that find no coverage and no failure, every target is
\* run again and again: from any tick that leaves the loop Horizon more
\* ticks, each target's run_one is called again.
C10_NoStarvation ==
    \A t \in Targets : \A n \in 0 .. MaxTrials + MaxTicks :
        (pc.at = "loop" /\ i + Horizon <= MaxTicks /\ fp[t].ninputs = n)
            ~> (fp[t].ninputs > n)

C10_Witness ==
    /\ pc.at = "loop" /\ i = MaxTicks
    /\ \A t \in Targets : fp[t].ninputs >= 1 + (MaxTicks \div NumTargets) - 2

(* --------------- properties of one FuzzProcess, continued ------------- *)

\* C11: when the database handle is None, startup() and every run_one()
\* after it return without raising; nothing is saved and nothing is queued
\* for replay.
C11_NoDatabaseRuns ==
    ~Stored.configured =>
       /\ (call.op = "startup" /\ call.result.status > OVERRUN) => ~call.raised
       /\ (call.op = "run_one" /\ Fields.pool # <<>>) => ~call.raised
       /\ fetch(Stored, "hy") = {} /\ fetch(Stored, "fuzz") = {}
       /\ Fields.replay_buffer = <<>>

\* the step is a run_one that returned with an INVALID result
InvalidStep == RunOneStep /\ call'.result.status = INVALID

\* C12, as claimed: a run_one whose result is INVALID counts one trial and
\* leaves the pool, the seen arcs, last_new_cov_at and the fuzz key as they
\* were, whatever arcs the result has.
C12_InvalidDiscarded ==
    [][InvalidStep =>
         /\ Fields'.ninputs = Fields.ninputs + 1
         /\ Fields'.pool = Fields.pool
         /\ Fields'.seen_arcs = Fields.seen_arcs
         /\ Fields'.last_new_cov_at = Fields.last_new_cov_at
         /\ fetch(Stored', "fuzz") = fetch(Stored, "fuzz")]_vars

\* C12, amended: a run_one whose result is INVALID counts one trial and
\* treats the result as it treats a VALID one: the arcs that differ from the
\* baseline are counted in the seen arcs, and if one of them is new the result
\* is added to the pool, saved under the fuzz key and last_new_cov_at becomes
\* the trial counter; the interesting examples and the primary key are left
\* as they were.
C12_InvalidProcessed ==
    [][InvalidStep =>
         LET r == call'.result
             base == Fields.minimal_example_arcs
             delta == (base \ r.arcs) \cup (r.arcs \ base)
             old == Fields.seen_arcs
         IN /\ Fields'.ninputs = Fields.ninputs + 1
            /\ DOMAIN Fields'.seen_arcs = (DOMAIN old) \cup delta
            /\ \A a \in DOMAIN Fields'.seen_arcs :
                  Fields'.seen_arcs[a] = (IF a \in DOMAIN old THEN old[a] ELSE 0)
                                           + (IF a \in delta THEN 1 ELSE 0)
            /\ IF delta \ DOMAIN old # {}
               THEN /\ Len(Fields'.pool) = Len(Fields.pool) + 1
                    /\ Range(Fields'.pool) = Range(Fields.pool) \cup {r}
                    /\ Fields'.last_new_cov_at = Fields'.ninputs
                    /\ fetch(Stored', "fuzz") = fetch(Stored, "fuzz") \cup {r.buffer}
               ELSE /\ Fields'.pool = Fields.pool
                    /\ Fields'.last_new_cov_at = Fields.last_new_cov_at
                    /\ fetch(Stored', "fuzz") = fetch(Stored, "fuzz")
            /\ Fields'.interesting_examples = Fields.interesting_examples
            /\ fetch(Stored', "hy") = fetch(Stored, "hy")]_vars

C12_Witness ==
    /\ call.op = "run_one" /\ ~call.raised /\ call.result.status = INVALID
    /\ call.result \in Range(Fields.pool)
    /\ Fields.last_new_cov_at = Fields.ninputs
    /\ call.result.buffer \in fetch(Stored, "fuzz")
    /\ History.firstresult.status = VALID

\* the step is a call, of run_one or of startup, that breaks the lifecycle
EarlyRunOne == call'.op = "run_one" /\ Fields.pool = <<>>
LateStartup == call'.op = "startup" /\ Fields.pool # <<>>

\* C13: run_one() on a FuzzProcess whose pool is empty raises and changes no
\* field and nothing in the database, and so does startup() on one whose pool
\* is filled; hence startup() returns at most once on a FuzzProcess and no
\* run_one() runs a trial before it has.
C13_FailFast ==
    [][/\ (EarlyRunOne \/ LateStartup) =>
            /\ call'.raised /\ call'.result = NoResult
            /\ Fields' = Fields /\ Stored' = Stored
            /\ oracle' = oracle
       /\ (call'.op = "run_one" /\ call'.result # NoResult) => History.startups = 1
       /\ History'.startups <= 1]_vars

C13_Witness ==
    /\ call.op = "startup" /\ call.raised /\ call.result = NoResult
    /\ History.startups = 1
    /\ Fields.ninputs = 2 /\ Len(Fields.pool) = 2

\* the step is a call of startup or run_one, returned or raised
CallStep == call'.op \in {"startup", "run_one"}
\* s is t with some elements taken out, the order kept
RECURSIVE IsSubsequence(_, _)
IsSubsequence(s, t) ==
    IF s = <<>> THEN TRUE
    ELSE IF t = <<>> THEN FALSE
    ELSE IF Head(s) = Head(t) THEN IsSubsequence(Tail(s), Tail(t))
    ELSE IsSubsequence(s, Tail(t))

\* C15: over the calls of startup() and run_one() on one FuzzProcess, no
\* entry leaves the pool, no arc leaves the seen arcs, no hit count goes down
\* and the trial counter does not go down.
C15_MonotonicGrowth ==
    [][CallStep =>
         /\ IsSubsequence(Fields.pool, Fields'.pool)
         /\ DOMAIN Fields.seen_arcs \subseteq DOMAIN Fields'.seen_arcs
         /\ \A a \in DOMAIN Fields.seen_arcs :
               Fields.seen_arcs[a] <= Fields'.seen_arcs[a]
         /\ Fields.ninputs <= Fields'.ninputs]_vars

C15_Witness ==
    /\ call.op = "run_one" /\ Fields.ninputs = 3
    /\ Len(Fields.pool) = 2
    /\ Fields.pool[2] = History.firstresult
    /\ DOMAIN Fields.seen_arcs = {"a", "b", "c"}
    /\ Fields.seen_arcs["c"] = 2 /\ Fields.seen_arcs["a"] = 2

\* the step is a run_one that took its prefix from the replay queue
ReplayStep == RunOneStep /\ call'.replayed
\* startup() returns with the replay queue holding the buffers of both keys,
\* each once, in descending order of sort_key
QueueLoaded ==
    StartupStep =>
       LET q == Fields'.replay_buffer
       IN /\ Range(q) = fetch(Stored', "hy") \cup fetch(Stored', "fuzz")
          /\ \A j, k \in 1 .. Len(q) :
                j < k => KeyLess(sort_key(q[k]), sort_key(q[j]))

\* C16, as claimed: startup() loads the replay queue with the buffers of
\* both keys, without duplicates, and the run_one() calls after it replay
\* them in descending order of sort_key, the largest first.
C16_LargestFirst ==
    [][/\ QueueLoaded
       /\ ReplayStep =>
             /\ call'.prefix \in Range(Fields.replay_buffer)
             /\ \A b \in Range(Fields.replay_buffer) :
                   KeyLeq(sort_key(b), sort_key(call'.prefix))]_vars

\* C16, amended: startup() loads the replay queue with the buffers of both
\* keys, without duplicates, sorted in descending order of sort_key, and the
\* run_one() calls after it take them from the end of the queue: they are
\* replayed in ascending order, the smallest first and the largest last.
C16_SmallestFirst ==
    [][/\ QueueLoaded
       /\ ReplayStep =>
             /\ call'.prefix \in Range(Fields.replay_buffer)
             /\ \A b \in Range(Fields.replay_buffer) :
                   KeyLeq(sort_key(call'.prefix), sort_key(b))
             /\ Range(Fields'.replay_buffer)
                   = Range(Fields.replay_buffer) \ {call'.prefix}]_vars

C16_Witness ==
    /\ History.restarts = 1
    /\ call.op = "run_one" /\ call.replayed /\ ~call.raised
    /\ Len(Fields.replay_buffer) = 1
    /\ Len(call.prefix) = 1 /\ Len(Fields.replay_buffer[1]) = 2
    /\ {call.prefix, Fields.replay_buffer[1]}
          \subseteq fetch(Stored, "hy") \cup fetch(Stored, "fuzz")

\* C17: _report_change is called in every trial that finds new coverage,
\* and in every 100 trials in a row it is called at least once, whatever the
\* status of the results of these trials.
C17_ReportsRegularly ==
    /\ (call.op = "run_one" /\ ~call.raised
            /\ Fields.last_new_cov_at = Fields.ninputs) => Fields.reports > 0
    /\ History.quiet < ReportEvery

\* C18: a run_one whose result is OVERRUN counts one trial, leaves the pool,
\* the seen arcs, last_new_cov_at, the interesting examples and both keys of
\* the database as they were and does not call _report_change; every run_one
\* that runs the test counts exactly one trial, whatever the status.
C18_OverrunFrame ==
    [][/\ (RunOneStep /\ call'.result.status = OVERRUN) =>
             /\ Fields'.ninputs = Fields.ninputs + 1
             /\ Fields'.pool = Fields.pool
             /\ Fields'.seen_arcs = Fields.seen_arcs
             /\ Fields'.last_new_cov_at = Fields.last_new_cov_at
             /\ Fields'.interesting_examples = Fields.interesting_examples
             /\ fetch(Stored', "hy") = fetch(Stored, "hy")
             /\ fetch(Stored', "fuzz") = fetch(Stored, "fuzz")
             /\ Fields'.reports = 0
       /\ (call'.op = "run_one" /\ call'.result # NoResult) =>
             Fields'.ninputs = Fields.ninputs + 1]_vars

C18_Witness ==
    /\ call.op = "run_one" /\ ~call.raised /\ call.result.status = OVERRUN
    /\ Len(call.result.buffer) = BUFFER_SIZE
    /\ Fields.ninputs = 3 /\ Fields.last_new_cov_at = 2
    /\ Len(Fields.pool) = 2 /\ Fields.reports = 0
    /\ has_found_failure(Fields)

\* the step is a run_one that sent a prefix to the test
TrialStep == call'.op = "run_one" /\ call'.result # NoResult

\* C19: while the replay queue is not empty, a run_one() takes exactly one
\* buffer off it and sends that buffer, without a draw from self.random, and
\* as the queue holds no buffer twice each is sent once; when the queue is
\* empty a trial numbered below 100 sends the empty prefix, and a splice is
\* sent only when the queue is empty and the trial is numbered 100 or more.
C19_GeneratorPriority ==
    [][TrialStep =>
         LET q == Fields.replay_buffer
         IN /\ \A j, k \in 1 .. Len(q) : q[j] = q[k] => j = k
            /\ IF q # <<>>
               THEN /\ call'.replayed /\ ~call'.spliced
                    /\ call'.prefix \in Range(q)
                    /\ Len(Fields'.replay_buffer) = Len(q) - 1
                    /\ Range(Fields'.replay_buffer) = Range(q) \ {call'.prefix}
               ELSE /\ ~call'.replayed
                    /\ Fields'.replay_buffer = <<>>
                    /\ Fields'.ninputs < RandomPhase =>
                          (call'.prefix = <<>> /\ ~call'.spliced)
                    /\ call'.spliced => Fields'.ninputs >= RandomPhase]_vars

C19_Witness ==
    /\ call.op = "run_one" /\ call.spliced /\ ~call.replayed
    /\ call.prefix = <<1, 1>> /\ call.result.status = OVERRUN
    /\ Fields.ninputs = RandomPhase
    /\ Fields.replay_buffer = <<>>
    /\ Stored = SavedBefore

\* C20: with a database, every buffer held in the interesting-examples map
\* is stored under the primary key, so every recorded origin has a buffer
\* there to replay.
C20_FailuresPersisted ==
    Stored.configured =>
       \A o \in DOMAIN Fields.interesting_examples :
          Fields.interesting_examples[o] \in fetch(Stored, "hy")

C20_Witness ==
    /\ Stored.configured
    /\ DOMAIN Fields.interesting_examples = Origins
    /\ Fields.interesting_examples["o1"] # Fields.interesting_examples["o2"]
    /\ call.op = "run_one" /\ call.result.status = INTERESTING
    /\ fetch(Stored, "hy")
          = {Fields.interesting_examples[o] : o \in Origins}

(* ----------------- properties of fuzz_several, continued -------------- *)

\* C14: a target is out of the schedule only if its interesting-examples map
\* is not empty; the loop has ended iff the schedule is empty, so only after
\* every target has found a failure; while a target remains the loop goes on
\* and the schedule it indexes is not empty.
C14_SchedulerExit ==
    /\ pc.at \in {"loop", "done"} =>
          \A t \in Targets \ Scheduled : has_found_failure(fp[t])
    /\ pc.at = "done" <=> (pc.at # "startup" /\ targets = <<>>)
    /\ pc.at = "done" => \A t \in Targets : has_found_failure(fp[t])
    /\ pc.at \in {"startup", "loop"} => Len(targets) >= 1
    /\ pc.at # "raised"
    /\ Cardinality(Scheduled) = Len(targets)

C14_Witness ==
    /\ pc.at = "done" /\ targets = <<>>
    /\ call.op = "run_one" /\ call.result.status = INTERESTING
    /\ \A t \in Targets : has_found_failure(fp[t])

====
